---- MODULE Spec2Model ----
(***************************************************************************)
(* carverse-backend: the seed coordinator (seed/seedMiddleware.js), the    *)
(* routes that run behind it (server.js, routes/cars.js), and the listing  *)
(* and compare endpoints of routes/cars.js, as a state machine.            *)
(*                                                                         *)
(* One step of the model is one run-to-completion turn of the Node event   *)
(* loop: the synchronous code between two awaits.  ensureSeedData holds no *)
(* await, so a request's pass through it, through checkDBConnection and    *)
(* through the synchronous prefix of its route handler is one step.        *)
(***************************************************************************)
EXTENDS Integers, Sequences, FiniteSets, TLC

\* ---------------------------------------------------------------- bounds
MaxReq == 2          \* requests that arrive in one process lifetime
MaxInitCars == 1     \* records in the store at process start

MaxOid == 2          \* distinct ObjectIds a compare request can name
MaxPrice == 3        \* price bounds of records and of requests: 0..MaxPrice
LimitSpread == 2     \* requested limits and pages reach this far past 0 and past MaxLimit

\* ------------------------------------------------------ program constants
maxRetries == 10     \* seedMiddleware.js: const maxRetries = 10
MinCompare == 2      \* cars.js: ids.length < 2
MaxCompare == 4      \* cars.js: ids.length > 4
DefaultPage == 1     \* cars.js: page = 1
DefaultLimit == 12   \* cars.js: limit = 12, Number(limit) || 12
MinLimit == 1        \* cars.js: Math.max(..., 1)
MaxLimit == 50       \* cars.js: Math.min(..., 50)
MinPage == 1         \* cars.js: Math.max(Number(page) || 1, 1)

Reqs == 1..MaxReq
Routes == {"health", "seed"}   \* GET /api/health, POST /api/cars/seed

VARIABLES
  devMode,        \* isDev(): NODE_ENV === 'development' || ALLOW_DEV_SEED === 'true'
  connected,      \* mongoose.connection.readyState === 1
  carCount,       \* records in the cars collection
  seedAttempted,  \* let seedAttempted
  seedPromise,    \* let seedPromise: 0 is null, t the promise of seed task t
  task,           \* the seed tasks (async IIFE), indexed by the request that started them
  req,            \* the requests: route, position of the handler, response status
  nextCalls,      \* how often ensureSeedData called next() for each request
  seedRejected,   \* a seed promise rejected (an error left the IIFE)
  firstDev,       \* isDev() as the first request saw it: "none" before it
  initCars,       \* carCount at process start
  cmp,            \* the POST /api/cars/compare request: body, position, response
  lst             \* the GET /api/cars request: query parameters, position, response

vars == <<devMode, connected, carCount, seedAttempted, seedPromise, task, req,
          nextCalls, seedRejected, firstDev, initCars, cmp, lst>>

NoTask == [pc |-> "none", retries |-> 0, calls |-> 0, count |-> -1, outcome |-> "none"]
NewReq == [route |-> "none", pc |-> "new", status |-> 0, saw |-> "none"]
NoBody == [kind |-> "absent", ids |-> <<>>]
NoCompare == [pc |-> "idle", body |-> NoBody, find |-> "none", found |-> <<>>,
              status |-> 0, invalidIds |-> <<>>,
              missing |-> <<>>, cars |-> <<>>, comparison |-> <<>>]

\* a query parameter that is not in the query string, a variable not yet assigned
Undefined == [t |-> "undefined", k |-> "undefined", n |-> 0, m |-> 0]
NoParams ==
  [page |-> Undefined, limit |-> Undefined, q |-> Undefined, brand |-> Undefined,
   bodyType |-> Undefined, fuelType |-> Undefined, transmission |-> Undefined,
   minPrice |-> Undefined, maxPrice |-> Undefined, minPower |-> Undefined,
   launchYear |-> Undefined, discontinued |-> Undefined, tags |-> Undefined,
   sort |-> Undefined, extra |-> Undefined]
NoQuery == [key \in {} |-> Undefined]
NoSort == [kind |-> "none", path |-> "", dir |-> 0]
NoList == [pc |-> "idle", params |-> NoParams, status |-> 0, message |-> "",
           query |-> NoQuery, numericPage |-> 0, numericLimit |-> 0,
           sortOption |-> NoSort, find |-> "none", count |-> "none",
           data |-> <<>>, total |-> 0]

Init ==
  /\ devMode \in BOOLEAN
  /\ connected \in BOOLEAN
  /\ carCount \in 0..MaxInitCars
  /\ initCars = carCount
  /\ seedAttempted = FALSE
  /\ seedPromise = 0
  /\ task = [t \in Reqs |-> NoTask]
  /\ req = [r \in Reqs |-> NewReq]
  /\ nextCalls = [r \in Reqs |-> 0]
  /\ seedRejected = FALSE
  /\ firstDev = "none"
  /\ cmp = NoCompare
  /\ lst = NoList

\* ------------------------------------------------------------ environment
isDev == devMode

\* process.env is read on every call of isDev(); it may change between calls.
SetEnv ==
  /\ devMode' = ~devMode
  /\ UNCHANGED <<connected, carCount, seedAttempted, seedPromise, task, req,
                 nextCalls, seedRejected, firstDev, initCars, cmp, lst>>

\* mongoose.connect resolves, or the 'reconnected' event.
Connect ==
  /\ ~connected
  /\ connected' = TRUE
  /\ UNCHANGED <<devMode, carCount, seedAttempted, seedPromise, task, req,
                 nextCalls, seedRejected, firstDev, initCars, cmp, lst>>

\* the 'disconnected' event.
Disconnect ==
  /\ connected
  /\ connected' = FALSE
  /\ UNCHANGED <<devMode, carCount, seedAttempted, seedPromise, task, req,
                 nextCalls, seedRejected, firstDev, initCars, cmp, lst>>

\* ------------------------------------------------- seedCars (seed/seedCars.js)
\* seedCars() reads the record count and inserts the static dataset only into
\* an empty collection; its callers read { inserted } or { skipped, count }.
DatasetSize == 2     \* records of the static dataset

seedCarsSkips(count) == count > 0

seedCarsInsert(count) == count + DatasetSize

\* ------------------------------------------------ the seed task (async IIFE)
\* while (mongoose.connection.readyState !== 1 && retries < maxRetries)
\* Faulty variant: the loop without its retry budget.
LoopCond_Unbounded(retries) == ~connected

LoopCond(retries) == ~connected /\ retries < maxRetries

\* try { ... } catch { log } finally { seedPromise = null }: the task ends, by
\* return or by a caught error; nothing leaves the IIFE.
\* Faulty variant: no catch, a store error leaves the IIFE and rejects the promise.
SeedFinish_Rethrow(t, tk, outcome) ==
  /\ task' = [task EXCEPT ![t] = [tk EXCEPT !.pc = "done", !.outcome = outcome]]
  /\ seedPromise' = 0
  /\ seedRejected' = (seedRejected \/ outcome = "failed")
  /\ UNCHANGED seedAttempted

\* Faulty variant: finally { seedPromise = null; seedAttempted = false; }
SeedFinish_ResetsFlag(t, tk, outcome) ==
  /\ task' = [task EXCEPT ![t] = [tk EXCEPT !.pc = "done", !.outcome = outcome]]
  /\ seedPromise' = 0
  /\ seedAttempted' = FALSE
  /\ UNCHANGED seedRejected

SeedFinish(t, tk, outcome) ==
  /\ task' = [task EXCEPT ![t] = [tk EXCEPT !.pc = "done", !.outcome = outcome]]
  /\ seedPromise' = 0
  /\ UNCHANGED <<seedAttempted, seedRejected>>

\* The task runs on to its next await.
SeedGoto(t, tk) ==
  /\ task' = [task EXCEPT ![t] = tk]
  /\ UNCHANGED <<seedAttempted, seedPromise, seedRejected>>

\* The loop is left: give up when still not connected, else await countDocuments.
AfterLoop(t, tk) ==
  IF ~connected
    THEN SeedFinish(t, tk, "gaveup")
    ELSE SeedGoto(t, [tk EXCEPT !.pc = "count", !.calls = @ + 1])

\* The 500 ms timer fires: retries++, then the loop condition again.
SeedPoll(t) ==
  /\ task[t].pc = "wait"
  /\ LET tk == [task[t] EXCEPT !.retries = @ + 1] IN
       IF LoopCond(tk.retries) THEN SeedGoto(t, tk) ELSE AfterLoop(t, tk)
  /\ UNCHANGED <<devMode, connected, carCount, req, nextCalls, firstDev, initCars, cmp, lst>>

\* Faulty variant: seedCars() is called whatever the count is.
SeedCountReturn_IgnoresCount(t) ==
  /\ task[t].pc = "count"
  /\ \E ok \in BOOLEAN :
       IF ~ok THEN SeedFinish(t, task[t], "failed")
       ELSE SeedGoto(t, [task[t] EXCEPT !.count = carCount, !.pc = "scCount", !.calls = @ + 1])
  /\ UNCHANGED <<devMode, connected, carCount, req, nextCalls, firstDev, initCars, cmp, lst>>

\* const count = await Car.countDocuments(); if (count === 0) seedCars() else skip
SeedCountReturn(t) ==
  /\ task[t].pc = "count"
  /\ \E ok \in BOOLEAN :
       IF ~ok THEN SeedFinish(t, task[t], "failed")
       ELSE LET tk == [task[t] EXCEPT !.count = carCount] IN
            IF tk.count = 0
              THEN SeedGoto(t, [tk EXCEPT !.pc = "scCount", !.calls = @ + 1])
              ELSE SeedFinish(t, tk, "skipped")
  /\ UNCHANGED <<devMode, connected, carCount, req, nextCalls, firstDev, initCars, cmp, lst>>

\* inside await seedCars(): its count returns
SeedCarsCountReturn(t) ==
  /\ task[t].pc = "scCount"
  /\ \E ok \in BOOLEAN :
       IF ~ok THEN SeedFinish(t, task[t], "failed")
       ELSE IF seedCarsSkips(carCount)
              THEN SeedFinish(t, task[t], "scSkipped")
              ELSE SeedGoto(t, [task[t] EXCEPT !.pc = "scInsert", !.calls = @ + 1])
  /\ UNCHANGED <<devMode, connected, carCount, req, nextCalls, firstDev, initCars, cmp, lst>>

\* inside await seedCars(): its bulk insert returns
SeedCarsInsertReturn(t) ==
  /\ task[t].pc = "scInsert"
  /\ \E ok \in BOOLEAN :
       IF ok
         THEN /\ carCount' = seedCarsInsert(carCount)
              /\ SeedFinish(t, task[t], "inserted")
         ELSE /\ carCount' = carCount
              /\ SeedFinish(t, task[t], "failed")
  /\ UNCHANGED <<devMode, connected, req, nextCalls, firstDev, initCars, cmp, lst>>

\* ------------------------------------------------------- ensureSeedData
\* Faulty variant: a request that finds a seed in flight awaits it instead of next().
PassThrough_Awaits(r) ==
  /\ nextCalls' = [nextCalls EXCEPT ![r] = IF seedPromise # 0 THEN @ ELSE @ + 1]
  /\ UNCHANGED <<seedAttempted, seedPromise, task, seedRejected>>

\* next(); return  -- lines 13 and 20-24
PassThrough(r) ==
  /\ nextCalls' = [nextCalls EXCEPT ![r] = @ + 1]
  /\ UNCHANGED <<seedAttempted, seedPromise, task, seedRejected>>

\* Faulty variant: seedAttempted is not set outside dev mode.
SkipSeed_NoFlag(r) ==
  /\ nextCalls' = [nextCalls EXCEPT ![r] = @ + 1]
  /\ UNCHANGED <<seedAttempted, seedPromise, task, seedRejected>>

\* if (!isDev()) { seedAttempted = true; return next(); }
SkipSeed(r) ==
  /\ seedAttempted' = TRUE
  /\ nextCalls' = [nextCalls EXCEPT ![r] = @ + 1]
  /\ UNCHANGED <<seedPromise, task, seedRejected>>

\* The IIFE up to its first await: the loop condition with retries = 0.
SeedTaskStart ==
  IF LoopCond(0)
    THEN [NoTask EXCEPT !.pc = "wait"]
    ELSE [NoTask EXCEPT !.pc = "count", !.calls = 1]

\* Faulty variant: the task is started without seedAttempted = true.
StartSeed_NoFlag(r) ==
  /\ seedPromise' = r
  /\ task' = [task EXCEPT ![r] = SeedTaskStart]
  /\ nextCalls' = [nextCalls EXCEPT ![r] = @ + 1]
  /\ UNCHANGED <<seedAttempted, seedRejected>>

\* Faulty variant: the task is started without recording flag or promise.
StartSeed_Untracked(r) ==
  /\ task' = [task EXCEPT ![r] = SeedTaskStart]
  /\ nextCalls' = [nextCalls EXCEPT ![r] = @ + 1]
  /\ UNCHANGED <<seedAttempted, seedPromise, seedRejected>>

\* seedAttempted = true; seedPromise = (async () => {...})(); next();
\* The IIFE runs to its first await inside this step: with maxRetries > 0 that is
\* the timer when the store is not connected and countDocuments when it is.
StartSeed(r) ==
  /\ seedAttempted' = TRUE
  /\ seedPromise' = r
  /\ task' = [task EXCEPT ![r] = SeedTaskStart]
  /\ nextCalls' = [nextCalls EXCEPT ![r] = @ + 1]
  /\ UNCHANGED seedRejected

ensureSeedData(r) ==
  IF seedAttempted THEN PassThrough(r)
  ELSE IF ~isDev THEN SkipSeed(r)
  ELSE IF seedPromise # 0 THEN PassThrough(r)
  ELSE StartSeed(r)

\* The coordinator's state as the spec names it.
SeedState ==
  IF seedPromise # 0 THEN "seeding" ELSE IF seedAttempted THEN "done" ELSE "idle"

\* ------------------------------------------------- behind ensureSeedData
\* What next() runs synchronously for request r on `route`:
\*   GET /api/health answers at once;
\*   POST /api/cars/seed passes checkDBConnection (503), then isDev() (403),
\*   then calls seedCars() and awaits it.
RouteStart(route) ==
  IF route = "health" THEN [NewReq EXCEPT !.route = route, !.pc = "sent", !.status = 200]
  ELSE IF ~connected THEN [NewReq EXCEPT !.route = route, !.pc = "sent", !.status = 503]
  ELSE IF ~isDev THEN [NewReq EXCEPT !.route = route, !.pc = "sent", !.status = 403]
  ELSE [NewReq EXCEPT !.route = route, !.pc = "scCount"]

\* A request arrives: the whole synchronous middleware chain is one step.
\* A request ensureSeedData does not hand on stays held in it.
Arrive(r, route) ==
  /\ req[r].pc = "new"
  /\ IF r = 1 THEN TRUE ELSE req[r - 1].pc # "new"
  /\ firstDev' = IF firstDev = "none" THEN (IF isDev THEN "dev" ELSE "prod") ELSE firstDev
  /\ ensureSeedData(r)
  /\ req' = [req EXCEPT ![r] =
              [(IF nextCalls'[r] > nextCalls[r]
                  THEN RouteStart(route)
                  ELSE [NewReq EXCEPT !.route = route, !.pc = "held"])
               EXCEPT !.saw = SeedState]]
  /\ UNCHANGED <<devMode, connected, carCount, initCars, cmp, lst>>

\* res.json(...) or res.status(status).json(...)
Respond(r, status) ==
  req' = [req EXCEPT ![r] = [@ EXCEPT !.pc = "sent", !.status = status]]

\* POST /api/cars/seed, inside await seedCars(): its count returns
ForceSeedCountReturn(r) ==
  /\ req[r].pc = "scCount"
  /\ \E ok \in BOOLEAN :
       IF ~ok THEN Respond(r, 500)
       ELSE IF seedCarsSkips(carCount)
              THEN req' = [req EXCEPT ![r] = [@ EXCEPT !.pc = "total"]]
              ELSE req' = [req EXCEPT ![r] = [@ EXCEPT !.pc = "scInsert"]]
  /\ UNCHANGED <<devMode, connected, carCount, seedAttempted, seedPromise, task,
                 nextCalls, seedRejected, firstDev, initCars, cmp, lst>>

\* POST /api/cars/seed, inside await seedCars(): its bulk insert returns
ForceSeedInsertReturn(r) ==
  /\ req[r].pc = "scInsert"
  /\ \E ok \in BOOLEAN :
       IF ok
         THEN /\ carCount' = seedCarsInsert(carCount)
              /\ req' = [req EXCEPT ![r] = [@ EXCEPT !.pc = "total"]]
         ELSE /\ carCount' = carCount
              /\ Respond(r, 500)
  /\ UNCHANGED <<devMode, connected, seedAttempted, seedPromise, task,
                 nextCalls, seedRejected, firstDev, initCars, cmp, lst>>

\* POST /api/cars/seed: const count = await Car.countDocuments(); res.json(...)
ForceSeedTotalReturn(r) ==
  /\ req[r].pc = "total"
  /\ \E ok \in BOOLEAN : Respond(r, IF ok THEN 200 ELSE 500)
  /\ UNCHANGED <<devMode, connected, carCount, seedAttempted, seedPromise, task,
                 nextCalls, seedRejected, firstDev, initCars, cmp, lst>>

\* ------------------------------------------------------------ specification
Next ==
  \/ SetEnv
  \/ Connect
  \/ Disconnect
  \/ \E r \in Reqs, route \in Routes : Arrive(r, route)
  \/ \E t \in Reqs : SeedPoll(t)
  \/ \E t \in Reqs : SeedCountReturn(t)
  \/ \E t \in Reqs : SeedCarsCountReturn(t)
  \/ \E t \in Reqs : SeedCarsInsertReturn(t)
  \/ \E r \in Reqs : ForceSeedCountReturn(r)
  \/ \E r \in Reqs : ForceSeedInsertReturn(r)
  \/ \E r \in Reqs : ForceSeedTotalReturn(r)

Spec == Init /\ [][Next]_vars

\* The event loop runs every due timer and every store call returns.
Fairness ==
  \A t \in Reqs :
    /\ WF_vars(SeedPoll(t))
    /\ WF_vars(SeedCountReturn(t))
    /\ WF_vars(SeedCarsCountReturn(t))
    /\ WF_vars(SeedCarsInsertReturn(t))

FairSpec == Spec /\ Fairness

\* ============================================== POST /api/cars/compare
\* ---- JavaScript values of a record's fields.  t is the type, <<k, n, m>> the
\* text String(v) gives: a word, or digits n (and m for a price range).
Null == [t |-> "null", k |-> "null", n |-> 0, m |-> 0]
Num(x) == [t |-> "num", k |-> "digits", n |-> x, m |-> 0]
Str(w) == [t |-> "str", k |-> w, n |-> 0, m |-> 0]
Bool(b) == [t |-> "bool", k |-> IF b THEN "true" ELSE "false", n |-> 0, m |-> 0]
\* `₹${x.toLocaleString('en-IN')}` and `₹${x...} - ₹${y...}`
Rupees(x) == [t |-> "str", k |-> "rupees", n |-> x, m |-> 0]
RupeeRange(x, y) == [t |-> "str", k |-> "rupees-rupees", n |-> x, m |-> y]

\* String(v): the text alone, the type is lost.
String(v) == [k |-> v.k, n |-> v.n, m |-> v.m]

\* ---- ids.  A 24-hex-digit string names the ObjectId oid in lower-case digits
\* or with upper-case digits; ObjectId.toString() gives the lower-case one.
Oids == 1..MaxOid
HexId(oid, upper) == [k |-> "hex", oid |-> oid, upper |-> upper]
BadString == [k |-> "badstr", oid |-> 0, upper |-> FALSE]   \* 'invalid-id'
EmptyString == [k |-> "empty", oid |-> 0, upper |-> FALSE]  \* ''
NonString == [k |-> "nonstr", oid |-> 0, upper |-> FALSE]   \* 42, {}, null
Elems == {HexId(o, u) : o \in Oids, u \in BOOLEAN} \cup {BadString, EmptyString, NonString}

\* mongoose.Types.ObjectId.isValid(id) for a string: 24 hex digits of either case
ObjectIdIsValid(e) == e.k = "hex"
\* the cast of a valid id string to ObjectId (Mongoose casts the $in list)
CastObjectId(e) == e.oid
\* c._id.toString(), that is ObjectId.toHexString()
toHexString(oid) == HexId(oid, FALSE)

\* ---- the cars collection: ObjectIds 1..carCount, with these documents
CarDoc(oid) ==
  IF oid % 2 = 1
    THEN [_id |-> oid, title |-> Str("Tata Punch"), brand |-> Str("TATA"),
          model |-> Str("Punch"), discontinued |-> Bool(FALSE),
          tags |-> <<"budget", "suv">>, createdAt |-> Num(oid),
          bodyType |-> Str("SUV"), fuelType |-> Str("Petrol"),
          transmission |-> Str("Manual"), driveType |-> Str("FWD"),
          powerBHP |-> Num(86), seatingCapacity |-> Num(5), safetyRating |-> Num(5),
          launchYear |-> Num(2021),
          engine |-> [displacement |-> Num(1199), cylinders |-> Num(3), turbo |-> Bool(FALSE)],
          price |-> [min |-> 6, max |-> 10]]
    ELSE [_id |-> oid, title |-> Str("Tata Nexon EV"), brand |-> Str("TATA"),
          model |-> Str("Nexon EV"), discontinued |-> Bool(TRUE),
          tags |-> <<"ev", "suv">>, createdAt |-> Num(oid),
          bodyType |-> Str("SUV"), fuelType |-> Str("EV"),
          transmission |-> Str("Automatic"), driveType |-> Str("FWD"),
          powerBHP |-> Num(127), range |-> Num(312), seatingCapacity |-> Num(5),
          launchYear |-> Num(2020),
          engine |-> [turbo |-> Bool(FALSE)],
          price |-> [min |-> 14]]

Stored == 1..carCount

\* ---- buildComparison
specKeys ==
  << [key |-> "brand", label |-> "Brand"],
     [key |-> "model", label |-> "Model"],
     [key |-> "bodyType", label |-> "Body Type"],
     [key |-> "fuelType", label |-> "Fuel Type"],
     [key |-> "transmission", label |-> "Transmission"],
     [key |-> "driveType", label |-> "Drive Type"],
     [key |-> "powerBHP", label |-> "Power (BHP)"],
     [key |-> "torqueNm", label |-> "Torque (Nm)"],
     [key |-> "topSpeed", label |-> "Top Speed (km/h)"],
     [key |-> "zeroToHundred", label |-> "0-100 km/h (s)"],
     [key |-> "mileage", label |-> "Mileage (km/L)"],
     [key |-> "range", label |-> "Range (km)"],
     [key |-> "seatingCapacity", label |-> "Seating Capacity"],
     [key |-> "safetyRating", label |-> "Safety Rating"],
     [key |-> "launchYear", label |-> "Launch Year"],
     [key |-> "engine.displacement", label |-> "Engine (cc)"],
     [key |-> "engine.cylinders", label |-> "Cylinders"],
     [key |-> "engine.turbo", label |-> "Turbo"],
     [key |-> "price", label |-> "Price (INR)"] >>

\* key.includes('.') and key.split('.')
KeyParts(key) ==
  CASE key = "engine.displacement" -> <<"engine", "displacement">>
    [] key = "engine.cylinders" -> <<"engine", "cylinders">>
    [] key = "engine.turbo" -> <<"engine", "turbo">>
    [] OTHER -> <<key>>

\* c[key] ?? null
Field(c, key) == IF key \in DOMAIN c THEN c[key] ELSE Null

\* c.price?.min, c.price?.max as truth values: a bound that is absent or 0 is falsy
PriceMin(c) == IF "price" \in DOMAIN c /\ "min" \in DOMAIN c.price THEN c.price.min ELSE 0
PriceMax(c) == IF "price" \in DOMAIN c /\ "max" \in DOMAIN c.price THEN c.price.max ELSE 0

PriceValue(c) ==
  IF PriceMin(c) # 0 /\ PriceMax(c) # 0
    THEN IF PriceMin(c) = PriceMax(c)
           THEN Rupees(PriceMin(c))
           ELSE RupeeRange(PriceMin(c), PriceMax(c))
  ELSE IF PriceMin(c) # 0 THEN Rupees(PriceMin(c))
  ELSE IF PriceMax(c) # 0 THEN Rupees(PriceMax(c))
  ELSE Null

SpecValue(c, key) ==
  LET parts == KeyParts(key) IN
    IF Len(parts) = 2
      THEN IF parts[1] \in DOMAIN c THEN Field(c[parts[1]], parts[2]) ELSE Null
    ELSE IF key = "price" THEN PriceValue(c)
    ELSE Field(c, key)

ComparisonRow(cars, sk) ==
  LET values == [i \in 1..Len(cars) |->
                   [carId |-> cars[i]._id, value |-> SpecValue(cars[i], sk.key)]]
      base == values[1].value
  IN [key |-> sk.key, label |-> sk.label, values |-> values,
      differs |-> \E i \in 1..Len(values) : String(values[i].value) # String(base)]

buildComparison(cars) == [j \in 1..Len(specKeys) |-> ComparisonRow(cars, specKeys[j])]

\* ---- the handler
\* the request bodies: ids absent, ids not an array, ids an array
Bodies ==
  {[kind |-> "absent", ids |-> <<>>], [kind |-> "nonarray", ids |-> <<>>]}
    \cup {[kind |-> "array", ids |-> q] : q \in UNION {[1..n -> Elems] : n \in 0..(MaxCompare + 1)}}

\* Faulty variant: only falsy and non-string elements are rejected.
InvalidIds_NoFormatCheck(ids) ==
  SelectSeq(ids, LAMBDA e : e.k = "empty" \/ e.k = "nonstr")

\* ids.filter((id) => !id || typeof id !== 'string' || !ObjectId.isValid(id))
InvalidIds(ids) ==
  SelectSeq(ids, LAMBDA e : e.k = "empty" \/ e.k = "nonstr" \/ ~ObjectIdIsValid(e))

\* Car.find({ _id: { $in: ids } }).lean(): the stored documents whose _id is the
\* cast of one of the ids, each once, in any order
FindResults(ids) ==
  LET hit == {CastObjectId(ids[i]) : i \in 1..Len(ids)} \cap Stored
      n == Cardinality(hit)
  IN {[i \in 1..n |-> CarDoc(q[i])] :
        q \in {p \in [1..n -> hit] : \A i, j \in 1..n : i # j => p[i] # p[j]}}

\* cars.map((c) => c._id.toString())
FoundIds(found) == [i \in 1..Len(found) |-> toHexString(found[i]._id)]

\* foundIds.includes(id)
Includes(q, e) == \E i \in 1..Len(q) : q[i] = e

\* ids.filter((id) => !foundIds.includes(id))
Missing(ids, found) == SelectSeq(ids, LAMBDA e : ~Includes(FoundIds(found), e))

\* Faulty variant: the records in the order the store returned them.
OrderedCars_StoreOrder(ids, found) == found

\* ids.map((id) => cars.find((c) => c._id.toString() === id)).filter(Boolean)
OrderedCars(ids, found) ==
  LET at(e) == {i \in 1..Len(found) : toHexString(found[i]._id) = e}
      hits == SelectSeq(ids, LAMBDA e : at(e) # {})
  IN [i \in 1..Len(hits) |->
        found[CHOOSE k \in at(hits[i]) : \A l \in at(hits[i]) : k <= l]]

\* res.status(status).json(...)
Answer(status) == [cmp EXCEPT !.pc = "sent", !.status = status]

\* The request reaches the handler: the checks up to await Car.find(...).
CompareRequest ==
  /\ cmp.pc = "idle"
  /\ \E body \in Bodies :
       cmp' = [(IF body.kind = "absent" THEN Answer(400)
                ELSE IF body.kind # "array" THEN Answer(400)
                ELSE IF Len(body.ids) < MinCompare \/ Len(body.ids) > MaxCompare THEN Answer(400)
                ELSE IF Len(InvalidIds(body.ids)) > 0
                       THEN [Answer(400) EXCEPT !.invalidIds = InvalidIds(body.ids)]
                ELSE [cmp EXCEPT !.pc = "find"])
               EXCEPT !.body = body]
  /\ UNCHANGED <<devMode, connected, carCount, seedAttempted, seedPromise, task, req,
                 nextCalls, seedRejected, firstDev, initCars, lst>>

\* Car.find returns, in some order, or fails; the rest of the handler.
CompareFindReturn ==
  /\ cmp.pc = "find"
  /\ \/ cmp' = [Answer(500) EXCEPT !.find = "failed"]
     \/ \E found \in FindResults(cmp.body.ids) :
          LET ids == cmp.body.ids
              missing == Missing(ids, found)
              orderedCars == OrderedCars(ids, found)
          IN cmp' = [(IF Len(missing) > 0 THEN [Answer(404) EXCEPT !.missing = missing]
                      ELSE IF Len(orderedCars) # Len(ids) THEN Answer(500)
                      ELSE [Answer(200) EXCEPT !.cars = orderedCars,
                                               !.comparison = buildComparison(orderedCars)])
                     EXCEPT !.find = "ok", !.found = found]
  /\ UNCHANGED <<devMode, connected, carCount, seedAttempted, seedPromise, task, req,
                 nextCalls, seedRejected, firstDev, initCars, lst>>

\* The process after its first requests: seeding is over, the store is connected
\* and holds any number of the records.
InitCompare ==
  /\ devMode = FALSE
  /\ connected = TRUE
  /\ carCount \in 0..MaxOid
  /\ initCars = carCount
  /\ seedAttempted = TRUE
  /\ seedPromise = 0
  /\ task = [t \in Reqs |-> NoTask]
  /\ req = [r \in Reqs |-> NewReq]
  /\ nextCalls = [r \in Reqs |-> 0]
  /\ seedRejected = FALSE
  /\ firstDev = "prod"
  /\ cmp = NoCompare
  /\ lst = NoList

NextCompare ==
  \/ CompareRequest
  \/ CompareFindReturn

SpecCompare == InitCompare /\ [][NextCompare]_vars

\* ========================================================== GET /api/cars
\* ---- query-string values.  A value of req.query is a string or is absent; the
\* string of the digits of n is the text <<"digits", n, 0>>, as String(Num(n)) is.
NaN == [t |-> "num", k |-> "NaN", n |-> 0, m |-> 0]
Digits(x) == [t |-> "str", k |-> "digits", n |-> x, m |-> 0]
Blank == Str(" ")

\* Number(v): '' and white space convert to 0, any other non-numeric text to NaN
Number(v) ==
  IF v.t = "num" THEN v
  ELSE IF v.t = "str" /\ v.k = "digits" THEN Num(v.n)
  ELSE IF v.t = "str" /\ v.k \in {"", " "} THEN Num(0)
  ELSE IF v.t = "null" THEN Num(0)
  ELSE IF v.t = "bool" THEN Num(IF v.k = "true" THEN 1 ELSE 0)
  ELSE NaN

\* isNaN(v) converts with Number first
isNaN(v) == Number(v) = NaN

\* the truth value of v in a condition, !v, v || d
Truthy(v) ==
  CASE v.t \in {"undefined", "null"} -> FALSE
    [] v.t = "str" -> v.k # ""
    [] v.t = "num" -> v # NaN /\ v.n # 0
    [] v.t = "bool" -> v.k = "true"
    [] OTHER -> TRUE

\* const { name = d } = req.query: the default stands in for undefined only
Default(v, d) == IF v.t = "undefined" THEN d ELSE v

\* s.trim(), for the texts the requests below carry
Trim(v) ==
  CASE v.k = " " -> Str("")
    [] v.k = " tat " -> Str("tat")
    [] v.k = " SUV " -> Str("SUV")
    [] OTHER -> v

\* s.toUpperCase()
ToUpperCase(v) ==
  CASE v.k = "tat" -> Str("TAT")
    [] v.k = "bmw" -> Str("BMW")
    [] OTHER -> v

\* tags.split(',').map((t) => t.trim().toLowerCase()).filter(Boolean)
TagArr(v) ==
  CASE v.k = "Budget, suv" -> <<"budget", "suv">>
    [] v.k = "EV" -> <<"ev">>
    [] v.k \in {",", " "} -> <<>>
    [] OTHER -> <<v.k>>

\* ---- the store's side: how a filter document selects records
\* the contiguous parts of a stored brand
Substrings(w) ==
  CASE w = "TATA" -> {"", "T", "A", "TA", "AT", "TAT", "ATA", "TATA"}
    [] w = "BMW" -> {"", "B", "M", "W", "BM", "MW", "BMW"}
    [] OTHER -> {"", w}

\* the store compiles the pattern: an unbalanced parenthesis is no expression
RegexValid(pattern) == pattern.k # "("

\* { $regex: pattern, $options: 'i' }: an unanchored, case-insensitive search;
\* letters stand for themselves, '.' stands for any one character
RegexTest(pattern, text) ==
  IF pattern.k = "." THEN text.k # ""
  ELSE ToUpperCase(pattern).k \in Substrings(ToUpperCase(text).k)

\* the words the text index holds for a record (title, brand, model, tags)
TextWords(doc) ==
  (CASE doc.model.k = "Punch" -> {"tata", "punch"}
     [] doc.model.k = "Nexon EV" -> {"tata", "nexon", "ev"}
     [] OTHER -> {})
    \cup {doc.tags[i] : i \in 1..Len(doc.tags)}

\* { $text: { $search: s } }: some word of s is indexed for the record
TextMatches(search, doc) == search.k \in TextWords(doc)

\* the value at a field path, Undefined when the record has no such field
DocPath(doc, path) ==
  CASE path = "price.min" ->
         IF "min" \in DOMAIN doc.price THEN Num(doc.price.min) ELSE Undefined
    [] path = "price.max" ->
         IF "max" \in DOMAIN doc.price THEN Num(doc.price.max) ELSE Undefined
    [] OTHER -> IF path \in DOMAIN doc THEN doc[path] ELSE Undefined

\* one operator of a field condition; range operators select numbers only
OpMatches(op, value, operand) ==
  CASE op = "$gte" -> value.t = "num" /\ operand.t = "num" /\ value.n >= operand.n
    [] op = "$lte" -> value.t = "num" /\ operand.t = "num" /\ value.n <= operand.n
    [] op = "$regex" -> value.t = "str" /\ RegexTest(operand, value)
    [] op = "$in" -> \E i \in 1..Len(value) : \E j \in 1..Len(operand) : value[i] = operand[j]
    [] OTHER -> TRUE

\* { path: value } is equality, { path: { $op: operand, ... } } is every operator
FieldMatches(doc, path, cond) ==
  IF "t" \in DOMAIN cond
    THEN DocPath(doc, path) = cond
    ELSE \A op \in DOMAIN cond : OpMatches(op, DocPath(doc, path), cond[op])

RECURSIVE Matches(_, _)
\* a filter document: every key has to hold
Matches(query, doc) ==
  \A key \in DOMAIN query :
    CASE key = "$or" -> \E i \in 1..Len(query[key]) : Matches(query[key][i], doc)
      [] key = "$and" -> \A i \in 1..Len(query[key]) : Matches(query[key][i], doc)
      [] key = "$text" -> TextMatches(query[key]["$search"], doc)
      [] OTHER -> FieldMatches(doc, key, query[key])

\* ---- the handler: the filter document it builds (const query = {})
Start == [status |-> 0, message |-> "", query |-> NoQuery]

\* query[key] = cond
Put(acc, key, cond) == [acc EXCEPT !.query = (key :> cond) @@ acc.query]

\* return res.status(400).json({ message })
Reject(acc, message) == [acc EXCEPT !.status = 400, !.message = message]

\* if (q && typeof q === 'string' && q.trim())
TextFilter(acc, q) ==
  IF Truthy(q) /\ q.t = "str" /\ Truthy(Trim(q))
    THEN Put(acc, "$text", ("$search" :> Trim(q)))
    ELSE acc

\* if (brand && typeof brand === 'string' && brand.trim())
BrandFilter(acc, brand) ==
  IF Truthy(brand) /\ brand.t = "str" /\ Truthy(Trim(brand))
    THEN Put(acc, "brand", ("$regex" :> ToUpperCase(Trim(brand)) @@ "$options" :> Str("i")))
    ELSE acc

\* Faulty variant: a filter that is present is left out of the filter document.
ExactFilter_Dropped(acc, field, v) == acc

\* if (bodyType && typeof bodyType === 'string') query.bodyType = bodyType.trim()
\* and the same for fuelType and transmission
ExactFilter(acc, field, v) ==
  IF Truthy(v) /\ v.t = "str" THEN Put(acc, field, Trim(v)) ELSE acc

\* Faulty variant: the overlap test without the clause for a record that spans
\* the requested range.
PriceRange_NoSpan(min, max) ==
  << ("price.min" :> ("$gte" :> min @@ "$lte" :> max)),
     ("price.max" :> ("$gte" :> min @@ "$lte" :> max)) >>

\* both bounds: min within the range, max within the range, or the range spanned
PriceRange(min, max) ==
  << ("price.min" :> ("$gte" :> min @@ "$lte" :> max)),
     ("price.max" :> ("$gte" :> min @@ "$lte" :> max)),
     ("$and" :> << ("price.min" :> ("$lte" :> min)),
                   ("price.max" :> ("$gte" :> max)) >>) >>

\* Faulty variant: only the record's upper bound is tested.
PriceFrom_MaxOnly(min) == << ("price.max" :> ("$gte" :> min)) >>

\* only minPrice
PriceFrom(min) ==
  << ("price.max" :> ("$gte" :> min)), ("price.min" :> ("$gte" :> min)) >>

\* only maxPrice
PriceUpTo(max) ==
  << ("price.min" :> ("$lte" :> max)), ("price.max" :> ("$lte" :> max)) >>

\* Faulty variant: a contradictory range is not noticed.
MinAboveMax_Unchecked(min, max) == FALSE

\* min !== null && max !== null && min > max
MinAboveMax(min, max) == min # Null /\ max # Null /\ min.n > max.n

\* if (minPrice || maxPrice) { ... }
PriceFilter(acc, minPrice, maxPrice) ==
  IF ~(Truthy(minPrice) \/ Truthy(maxPrice)) THEN acc
  ELSE
    LET opened == Put(acc, "$or", <<>>)
        min == IF Truthy(minPrice) THEN Number(minPrice) ELSE Null
        max == IF Truthy(maxPrice) THEN Number(maxPrice) ELSE Null
    IN IF isNaN(min) /\ min # Null THEN Reject(opened, "Invalid minPrice value")
       ELSE IF isNaN(max) /\ max # Null THEN Reject(opened, "Invalid maxPrice value")
       ELSE IF MinAboveMax(min, max)
              THEN Reject(opened, "minPrice cannot be greater than maxPrice")
       ELSE IF min # Null /\ max # Null THEN Put(acc, "$or", PriceRange(min, max))
       ELSE IF min # Null THEN Put(acc, "$or", PriceFrom(min))
       ELSE IF max # Null THEN Put(acc, "$or", PriceUpTo(max))
       ELSE opened

\* Faulty variant: the value is used without the isNaN check.
PowerFilter_Unchecked(acc, minPower) ==
  IF Truthy(minPower) THEN Put(acc, "powerBHP", ("$gte" :> Number(minPower))) ELSE acc

\* if (minPower) { const power = Number(minPower); ... }
PowerFilter(acc, minPower) ==
  IF ~Truthy(minPower) THEN acc
  ELSE LET power == Number(minPower)
       IN IF isNaN(power) THEN Reject(acc, "Invalid minPower value")
          ELSE Put(acc, "powerBHP", ("$gte" :> power))

\* if (launchYear) { const year = Number(launchYear); ... }
YearFilter(acc, launchYear) ==
  IF ~Truthy(launchYear) THEN acc
  ELSE LET year == Number(launchYear)
       IN IF isNaN(year) THEN Reject(acc, "Invalid launchYear value")
          ELSE Put(acc, "launchYear", year)

\* if (discontinued !== undefined)
DiscontinuedFilter(acc, discontinued) ==
  IF discontinued # Undefined
    THEN Put(acc, "discontinued", Bool(discontinued = Str("true") \/ discontinued = Bool(TRUE)))
    ELSE acc

\* if (tags && typeof tags === 'string') { ... if (tagArr.length) ... }
TagsFilter(acc, tags) ==
  IF Truthy(tags) /\ tags.t = "str" /\ Len(TagArr(tags)) > 0
    THEN Put(acc, "tags", ("$in" :> TagArr(tags)))
    ELSE acc

\* the filters in the order of the code; a return ends the handler
CompileFilters(p) ==
  LET a1 == TextFilter(Start, p.q)
      a2 == BrandFilter(a1, p.brand)
      a3 == ExactFilter(a2, "bodyType", p.bodyType)
      a4 == ExactFilter(a3, "fuelType", p.fuelType)
      a5 == ExactFilter(a4, "transmission", p.transmission)
      a6 == PriceFilter(a5, p.minPrice, p.maxPrice)
      a7 == IF a6.status # 0 THEN a6 ELSE PowerFilter(a6, p.minPower)
      a8 == IF a7.status # 0 THEN a7 ELSE YearFilter(a7, p.launchYear)
      a9 == IF a8.status # 0 THEN a8 ELSE DiscontinuedFilter(a8, p.discontinued)
  IN IF a9.status # 0 THEN a9 ELSE TagsFilter(a9, p.tags)

\* ---- pagination and sort
MathMax(a, b) == IF a >= b THEN a ELSE b
MathMin(a, b) == IF a <= b THEN a ELSE b

\* Number(v) || d
NumberOr(v, d) == IF Truthy(Number(v)) THEN Number(v).n ELSE d

\* Faulty variant: the requested limit without the clamp.
NumericLimit_Unclamped(limit) == NumberOr(Default(limit, Num(DefaultLimit)), DefaultLimit)

\* Math.min(Math.max(Number(limit) || 12, 1), 50)
NumericLimit(limit) ==
  MathMin(MathMax(NumberOr(Default(limit, Num(DefaultLimit)), DefaultLimit), MinLimit), MaxLimit)

\* Math.max(Number(page) || 1, 1)
NumericPage(page) ==
  MathMax(NumberOr(Default(page, Num(DefaultPage)), DefaultPage), MinPage)

SortBy(path, dir) == [kind |-> "entry", path |-> path, dir |-> dir]

SORT_FIELDS ==
  [newest |-> SortBy("createdAt", -1), oldest |-> SortBy("createdAt", 1),
   priceAsc |-> SortBy("price.min", 1), priceDesc |-> SortBy("price.max", -1),
   powerAsc |-> SortBy("powerBHP", 1), powerDesc |-> SortBy("powerBHP", -1),
   yearAsc |-> SortBy("launchYear", 1), yearDesc |-> SortBy("launchYear", -1),
   mileageAsc |-> SortBy("mileage", 1), mileageDesc |-> SortBy("mileage", -1)]

\* the function-valued properties an object literal inherits from Object.prototype
ObjectPrototype ==
  {"constructor", "toString", "valueOf", "hasOwnProperty", "isPrototypeOf",
   "propertyIsEnumerable", "toLocaleString"}

\* SORT_FIELDS[sort]: an own property, an inherited one, or undefined (NoSort)
SortLookup(sort) ==
  IF sort.t = "str" /\ sort.k \in DOMAIN SORT_FIELDS THEN SORT_FIELDS[sort.k]
  ELSE IF sort.t = "str" /\ sort.k \in ObjectPrototype
         THEN [kind |-> "function", path |-> sort.k, dir |-> 0]
  ELSE NoSort

\* SORT_FIELDS[sort] || SORT_FIELDS.newest: entries and functions are truthy
SortOption(sort) ==
  LET entry == SortLookup(Default(sort, Str("newest")))
  IN IF entry.kind # "none" THEN entry ELSE SORT_FIELDS.newest

\* Query.sort(arg) takes a string, an object, an array or a Map, and throws a
\* TypeError for any other argument
SortAccepted(sortOption) == sortOption.kind = "entry"

\* ---- the store's answers
\* the store runs a filter document only if its regular expression compiles
QueryAccepted(query) == "brand" \in DOMAIN query => RegexValid(query["brand"]["$regex"])

MatchingStored(query) == {oid \in Stored : Matches(query, CarDoc(oid))}

\* the sort key of a record: a missing field sorts below every number
SortKey(doc, sortOption) ==
  LET v == DocPath(doc, sortOption.path) IN IF v.t = "num" THEN v.n ELSE -1

\* find(query).sort(sortOption).skip(skip).limit(limit): a page of the matching
\* records in sort order, records with equal keys in any order
FindPages(query, sortOption, skip, limit) ==
  LET hit == MatchingStored(query)
      n == Cardinality(hit)
      sorted == {q \in [1..n -> hit] :
                   /\ \A i, j \in 1..n : i # j => q[i] # q[j]
                   /\ \A i \in 1..(n - 1) :
                        sortOption.dir * SortKey(CarDoc(q[i]), sortOption)
                          <= sortOption.dir * SortKey(CarDoc(q[i + 1]), sortOption)}
      last == MathMin(n, skip + limit)
  IN {[i \in 1..(IF last > skip THEN last - skip ELSE 0) |-> CarDoc(q[skip + i])] :
        q \in sorted}

\* ---- the requests
PriceInputs == {Undefined, Str(""), Blank, Str("abc")} \cup {Digits(x) : x \in 0..MaxPrice}
CorePrices == {Undefined, Str("abc"), Digits(7), Digits(12)}
PageInputs ==
  {Undefined, Str(""), Str("abc")} \cup {Digits(x) : x \in (0 - LimitSpread)..LimitSpread}
LimitInputs ==
  PageInputs \cup {Digits(x) : x \in (MaxLimit - LimitSpread)..(MaxLimit + LimitSpread)}
SortInputs ==
  {Undefined, Str(""), Str("cheapest"), Str("constructor"), Str("toString")}
    \cup {Str(w) : w \in DOMAIN SORT_FIELDS}

\* the filters absent or at a usual value, the numeric ones also non-numeric;
\* fuelType and transmission, compiled like bodyType, vary in EdgeRequests
CoreRequests ==
  [page : {Undefined}, limit : {Undefined}, sort : {Undefined},
   q : {Undefined, Str("punch")}, brand : {Undefined, Str(" tat ")},
   bodyType : {Undefined, Str(" SUV ")}, fuelType : {Undefined},
   transmission : {Undefined},
   minPrice : CorePrices, maxPrice : CorePrices,
   minPower : {Undefined, Str("abc"), Digits(100)},
   launchYear : {Undefined, Str("abc"), Digits(2021)},
   discontinued : {Undefined, Str("true")}, tags : {Undefined, Str("Budget, suv")},
   extra : {Undefined, Str("1")}]

\* one parameter at an unusual value, alone or next to usual values for the rest
AllFilters ==
  [NoParams EXCEPT !.q = Str("punch"), !.brand = Str(" tat "), !.bodyType = Str(" SUV "),
                   !.fuelType = Str("Petrol"), !.transmission = Str("Manual"),
                   !.minPrice = Digits(7), !.maxPrice = Digits(12),
                   !.minPower = Digits(0), !.launchYear = Digits(2021),
                   !.discontinued = Str("false"), !.tags = Str("Budget, suv")]
EdgeValues ==
  {<<"q", Str("")>>, <<"q", Blank>>, <<"q", Str("nexon")>>,
   <<"brand", Str("")>>, <<"brand", Blank>>, <<"brand", Str("bmw")>>,
   <<"brand", Str(".")>>, <<"brand", Str("(")>>,
   <<"bodyType", Str("")>>, <<"bodyType", Blank>>, <<"bodyType", Str("Sedan")>>,
   <<"fuelType", Str("")>>, <<"fuelType", Blank>>, <<"fuelType", Str("EV")>>,
   <<"fuelType", Str("Petrol")>>,
   <<"transmission", Str("")>>, <<"transmission", Blank>>,
   <<"transmission", Str("Manual")>>, <<"transmission", Str("Automatic")>>,
   <<"minPower", Str("")>>, <<"minPower", Blank>>, <<"minPower", Digits(0)>>,
   <<"launchYear", Str("")>>, <<"launchYear", Blank>>, <<"launchYear", Digits(0)>>,
   <<"discontinued", Str("")>>, <<"discontinued", Str("false")>>,
   <<"discontinued", Str("yes")>>,
   <<"tags", Str("")>>, <<"tags", Str(",")>>, <<"tags", Blank>>, <<"tags", Str("EV")>>}
EdgeRequests ==
  {[base EXCEPT ![e[1]] = e[2]] : base \in {NoParams, AllFilters}, e \in EdgeValues}

\* the price filter over every pair of inputs
PriceRequests ==
  {[NoParams EXCEPT !.minPrice = a, !.maxPrice = b] : a, b \in PriceInputs}

\* page, limit and sort, with no filter and next to a contradictory price range
PagingRequests ==
  {[NoParams EXCEPT !.page = pg, !.limit = l, !.sort = s,
                    !.minPrice = x[1], !.maxPrice = x[2]] :
     pg \in PageInputs, l \in LimitInputs, s \in SortInputs,
     x \in {<<Undefined, Undefined>>, <<Digits(12), Digits(7)>>}}

Requests == CoreRequests \cup EdgeRequests \cup PriceRequests \cup PagingRequests

\* ---- the handler as steps
\* The request reaches the handler: everything up to await Promise.all([...]).
\* A 400 is a return; a throw of Query.sort is caught and answered 500.
ListHandler(p) ==
  LET acc == CompileFilters(p)
      read == [lst EXCEPT !.params = p, !.query = acc.query]
      ready == [read EXCEPT !.numericLimit = NumericLimit(p.limit),
                            !.numericPage = NumericPage(p.page),
                            !.sortOption = SortOption(p.sort)]
  IN IF acc.status # 0
       THEN [read EXCEPT !.pc = "sent", !.status = acc.status, !.message = acc.message]
     ELSE IF ~SortAccepted(ready.sortOption)
       THEN [ready EXCEPT !.pc = "sent", !.status = 500, !.message = "Failed to fetch cars"]
     ELSE [ready EXCEPT !.pc = "await", !.find = "pending", !.count = "pending"]

ListRequest ==
  /\ lst.pc = "idle"
  /\ \E p \in Requests : lst' = ListHandler(p)
  /\ UNCHANGED <<devMode, connected, carCount, seedAttempted, seedPromise, task, req,
                 nextCalls, seedRejected, firstDev, initCars, cmp>>

\* Promise.all resolved: res.json({ data, page, totalPages, total, limit })
Settle(l) ==
  IF l.find = "ok" /\ l.count = "ok" THEN [l EXCEPT !.pc = "sent", !.status = 200] ELSE l

\* Promise.all rejected: the catch block
Fail(l) == [l EXCEPT !.pc = "sent", !.status = 500, !.message = "Failed to fetch cars"]

\* Car.find(query)... returns a page, or fails: the store is unreachable
\* ("failed") or refuses the filter document ("rejected").
ListFindReturn ==
  /\ lst.pc = "await" /\ lst.find = "pending"
  /\ \/ lst' = Fail([lst EXCEPT !.find = IF QueryAccepted(lst.query) THEN "failed"
                                          ELSE "rejected"])
     \/ /\ QueryAccepted(lst.query)
        /\ \E data \in FindPages(lst.query, lst.sortOption,
                                 (lst.numericPage - 1) * lst.numericLimit, lst.numericLimit) :
             lst' = Settle([lst EXCEPT !.find = "ok", !.data = data])
  /\ UNCHANGED <<devMode, connected, carCount, seedAttempted, seedPromise, task, req,
                 nextCalls, seedRejected, firstDev, initCars, cmp>>

\* Car.countDocuments(query) returns, or fails.
ListCountReturn ==
  /\ lst.pc = "await" /\ lst.count = "pending"
  /\ \/ lst' = Fail([lst EXCEPT !.count = IF QueryAccepted(lst.query) THEN "failed"
                                           ELSE "rejected"])
     \/ /\ QueryAccepted(lst.query)
        /\ lst' = Settle([lst EXCEPT !.count = "ok",
                                     !.total = Cardinality(MatchingStored(lst.query))])
  /\ UNCHANGED <<devMode, connected, carCount, seedAttempted, seedPromise, task, req,
                 nextCalls, seedRejected, firstDev, initCars, cmp>>

\* The process after its first requests, as for the compare endpoint.
InitList ==
  /\ devMode = FALSE
  /\ connected = TRUE
  /\ carCount \in 0..MaxOid
  /\ initCars = carCount
  /\ seedAttempted = TRUE
  /\ seedPromise = 0
  /\ task = [t \in Reqs |-> NoTask]
  /\ req = [r \in Reqs |-> NewReq]
  /\ nextCalls = [r \in Reqs |-> 0]
  /\ seedRejected = FALSE
  /\ firstDev = "prod"
  /\ cmp = NoCompare
  /\ lst = NoList

NextList ==
  \/ ListRequest
  \/ ListFindReturn
  \/ ListCountReturn

SpecList == InitList /\ [][NextList]_vars

\* =================================== GET /api/cars as the process's first request
\* The listing request passes ensureSeedData like every request, so in dev mode
\* the first one starts the seed task and its two queries run while the task does.
RaceRequests ==
  {[NoParams EXCEPT !.page = pg, !.limit = l, !.brand = b] :
     pg \in {Undefined, Digits(2)}, l \in {Undefined, Digits(1)},
     b \in {Undefined, Str(" tat ")}}

\* app.use(ensureSeedData); app.use('/api/cars', checkDBConnection, carRoutes):
\* the middleware chain and the handler's synchronous prefix are one step.
ListArrive ==
  /\ req[1].pc = "new" /\ lst.pc = "idle"
  /\ firstDev' = IF firstDev = "none" THEN (IF isDev THEN "dev" ELSE "prod") ELSE firstDev
  /\ ensureSeedData(1)
  /\ req' = [req EXCEPT ![1] = [NewReq EXCEPT !.route = "cars", !.pc = "handler",
                                              !.saw = SeedState]]
  /\ \E p \in RaceRequests :
       lst' = IF ~connected
                THEN [lst EXCEPT !.params = p, !.pc = "sent", !.status = 503,
                                 !.message = "Database connection unavailable"]
                ELSE ListHandler(p)
  /\ UNCHANGED <<devMode, connected, carCount, initCars, cmp>>

InitSeedList ==
  /\ Init
  /\ devMode = TRUE

NextSeedList ==
  \/ Connect
  \/ Disconnect
  \/ ListArrive
  \/ \E t \in Reqs : SeedPoll(t)
  \/ \E t \in Reqs : SeedCountReturn(t)
  \/ \E t \in Reqs : SeedCarsCountReturn(t)
  \/ \E t \in Reqs : SeedCarsInsertReturn(t)
  \/ ListFindReturn
  \/ ListCountReturn

SpecSeedList == InitSeedList /\ [][NextSeedList]_vars

\* ---- buildComparison as a function of the records it is given
\* a record of each price shape: a bound is absent (-1) or one of 0..MaxPrice
PriceBounds == -1..MaxPrice
PricedDoc(lo, hi) ==
  [CarDoc(1) EXCEPT !.price = CASE lo >= 0 /\ hi >= 0 -> [min |-> lo, max |-> hi]
                                [] lo >= 0 -> [min |-> lo]
                                [] hi >= 0 -> [max |-> hi]
                                [] OTHER -> [currency |-> Str("INR")]]

\* the records handed to buildComparison: every price shape, and a record
\* without safetyRating and engine details
RowDocs == {PricedDoc(lo, hi) : lo, hi \in PriceBounds} \cup {CarDoc(2)}

\* orderedCars: the records q, _id by position
RowCars(q) == [i \in 1..Len(q) |-> [q[i] EXCEPT !._id = i]]

\* The process after its first requests, as for the compare endpoint.
InitRows ==
  /\ devMode = FALSE
  /\ connected = TRUE
  /\ carCount = 0
  /\ initCars = carCount
  /\ seedAttempted = TRUE
  /\ seedPromise = 0
  /\ task = [t \in Reqs |-> NoTask]
  /\ req = [r \in Reqs |-> NewReq]
  /\ nextCalls = [r \in Reqs |-> 0]
  /\ seedRejected = FALSE
  /\ firstDev = "prod"
  /\ cmp = NoCompare
  /\ lst = NoList

\* the handler has the records fetched and ordered: const orderedCars = ...
OrderRows ==
  /\ cmp.pc = "idle"
  /\ \E n \in 2..3 : \E q \in [1..n -> RowDocs] :
       cmp' = [cmp EXCEPT !.pc = "ordered", !.find = "ok", !.cars = RowCars(q)]
  /\ UNCHANGED <<devMode, connected, carCount, seedAttempted, seedPromise, task, req,
                 nextCalls, seedRejected, firstDev, initCars, lst>>

\* const comparison = buildComparison(orderedCars); res.json({ cars, comparison })
BuildRows ==
  /\ cmp.pc = "ordered"
  /\ cmp' = [Answer(200) EXCEPT !.comparison = buildComparison(cmp.cars)]
  /\ UNCHANGED <<devMode, connected, carCount, seedAttempted, seedPromise, task, req,
                 nextCalls, seedRejected, firstDev, initCars, lst>>

NextRows ==
  \/ OrderRows
  \/ BuildRows

SpecRows == InitRows /\ [][NextRows]_vars

\* ================================================================== claims
Started == {t \in Reqs : task[t].pc # "none"}
Arrived == {r \in Reqs : req[r].pc # "new"}
SeedDone == seedAttempted /\ seedPromise = 0

\* seedCars() calls in progress: by a seed task, by a POST /api/cars/seed handler
InSeedCars ==
  {<<"task", t>> : t \in {x \in Reqs : task[x].pc \in {"scCount", "scInsert"}}}
    \cup {<<"req", r>> : r \in {x \in Reqs : req[x].pc \in {"scCount", "scInsert"}}}

\* C1: over all interleavings of requests through ensureSeedData, at most one
\* seed task is ever started in the lifetime of the process.
C1_AtMostOneSeedTask == Cardinality(Started) <= 1

\* C1 witness: a request started the task and another arrived after the task had
\* ended, in dev mode with the store connected and still empty.
C1_Witness ==
  /\ Cardinality(Started) = 1
  /\ \E a, b \in Arrived : req[a].saw = "idle" /\ req[b].saw = "done"
  /\ \E t \in Started : task[t].pc = "done" /\ task[t].outcome = "gaveup"
  /\ devMode /\ connected /\ carCount = 0

C3_NextExactlyOnce ==
  \A r \in Reqs :
    /\ req[r].pc = "new" => nextCalls[r] = 0
    /\ req[r].pc # "new" => nextCalls[r] = 1 /\ req[r].pc # "held"

\* C3 witness: the request that started the task and one that arrived while the
\* task was running were both handed on, and the task is still running.
C3_Witness ==
  /\ \E a, b \in Arrived : req[a].saw = "idle" /\ req[b].saw = "seeding"
  /\ \A r \in Arrived : nextCalls[r] = 1 /\ req[r].pc = "sent"
  /\ \E t \in Reqs : task[t].pc \in {"wait", "count", "scCount", "scInsert"}

\* C4: seedCars is never in progress twice at the same time.
C4_SeedCarsNeverConcurrent == Cardinality(InSeedCars) <= 1

\* C5: a step in which the seed task's count returns non-zero issues no further
\* store call, leaves the store unchanged and ends the task with the state done.
C5_NonZeroCountIsNoOp ==
  [][\A t \in Reqs :
       (task[t].pc = "count" /\ task'[t].count > 0)
         => /\ carCount' = carCount
            /\ task'[t].calls = task[t].calls
            /\ task'[t].pc = "done" /\ task'[t].outcome = "skipped"
            /\ seedAttempted' /\ seedPromise' = 0]_vars

\* C5 witness: a fresh process with a non-empty store; the task counted and skipped.
C5_Witness ==
  /\ initCars > 0 /\ carCount = initCars
  /\ \E t \in Reqs : task[t].outcome = "skipped" /\ task[t].count = initCars
  /\ SeedDone

\* C6: if seeding was not permitted when the first request arrived, the state is
\* done, no seed task exists and no seed store call was made, ever after.
C6_NotPermittedNeverSeeds ==
  firstDev = "prod" =>
    /\ SeedDone
    /\ \A t \in Reqs : task[t] = NoTask

\* C6 witness: after a first request outside dev mode, a later request arrived in
\* dev mode (it got as far as seedCars in POST /api/cars/seed).
C6_Witness ==
  /\ firstDev = "prod"
  /\ \E r \in Reqs : req[r].route = "seed" /\ req[r].pc = "scCount"
  /\ connected /\ carCount = 0

\* C7: the task waits at most maxRetries times; giving up happens only after the
\* last wait and without a store call; every started task ends, with the state done.
C7_SeedTaskTerminates ==
  /\ [](\A t \in Reqs :
          /\ task[t].retries <= maxRetries
          /\ task[t].outcome = "gaveup" => task[t].retries = maxRetries /\ task[t].calls = 0)
  /\ \A t \in Reqs : (task[t].pc # "none") ~> (task[t].pc = "done" /\ SeedDone)

\* C7 witness: a task that gave up after its tenth wait.
C7_Witness ==
  \E t \in Reqs : task[t].outcome = "gaveup" /\ task[t].retries = maxRetries /\ SeedDone

\* C8: once a seed task has ended, however it ended, the state is done and stays
\* done, no seed promise was rejected, no second task exists, and every request
\* arriving from then on is served by its route alone.
C8_DoneIsPermanent ==
  /\ []((\E t \in Reqs : task[t].pc = "done")
          => SeedDone /\ ~seedRejected /\ Cardinality(Started) = 1)
  /\ [][SeedDone => /\ SeedDone'
                    /\ task' = task
                    /\ \A r \in Reqs :
                         (req[r].pc = "new" /\ req'[r].pc # "new")
                           => req'[r] = [RouteStart(req'[r].route) EXCEPT !.saw = "done"]]_vars

\* C8 witness: the task failed on a store error; later the store is connected and
\* still empty, and a request that arrived after the failure was answered.
C8_Witness ==
  /\ \E t \in Reqs : task[t].outcome = "failed"
  /\ connected /\ carCount = 0 /\ devMode
  /\ \E r \in Reqs : req[r].saw = "done" /\ req[r].pc = "sent" /\ req[r].status = 200

\* ids passed every check of the handler before Car.find
Validated(body) ==
  /\ body.kind = "array"
  /\ Len(body.ids) >= MinCompare /\ Len(body.ids) <= MaxCompare
  /\ \A i \in 1..Len(body.ids) : ObjectIdIsValid(body.ids[i])

\* C9: a validated id list with at least one id that has no stored record is
\* answered 404, missing is exactly the requested ids that have no record, and
\* the answer holds no cars and no comparison rows.
C9_MissingIsExactlyUnstored ==
  ( /\ cmp.pc = "sent" /\ cmp.find = "ok"
    /\ Validated(cmp.body)
    /\ \E i \in 1..Len(cmp.body.ids) : CastObjectId(cmp.body.ids[i]) \notin Stored )
  => /\ cmp.status = 404
     /\ cmp.missing = SelectSeq(cmp.body.ids, LAMBDA e : CastObjectId(e) \notin Stored)
     /\ cmp.cars = <<>> /\ cmp.comparison = <<>>

\* C10: on a 200 answer cars and every row's values are as long as ids, and at
\* every position i the car and the row's value are those of the record ids[i] names.
C10_CompareKeepsRequestOrder ==
  cmp.status = 200 =>
    LET ids == cmp.body.ids IN
      /\ Len(cmp.cars) = Len(ids)
      /\ \A i \in 1..Len(ids) :
           /\ cmp.cars[i] = CarDoc(CastObjectId(ids[i]))
           /\ toHexString(cmp.cars[i]._id) = ids[i]
      /\ Len(cmp.comparison) = Len(specKeys)
      /\ \A j \in 1..Len(cmp.comparison) :
           /\ Len(cmp.comparison[j].values) = Len(ids)
           /\ \A i \in 1..Len(ids) :
                /\ toHexString(cmp.comparison[j].values[i].carId) = ids[i]
                /\ cmp.comparison[j].values[i].value
                     = SpecValue(CarDoc(CastObjectId(ids[i])), specKeys[j].key)

\* C10 witness: a 200 answer to ids with a repeated id, for which the store
\* returned the records in another order than the request named them.
C10_Witness ==
  /\ cmp.status = 200
  /\ Len(cmp.body.ids) = 3
  /\ cmp.body.ids[1] = cmp.body.ids[3] /\ cmp.body.ids[1] # cmp.body.ids[2]
  /\ cmp.found[1]._id = CastObjectId(cmp.body.ids[2])
  /\ cmp.cars[1]._id = CastObjectId(cmp.body.ids[1])

EffLo(lo, hi) == IF lo >= 0 THEN lo ELSE hi
EffHi(lo, hi) == IF hi >= 0 THEN hi ELSE lo

\* at least one bound, and min <= max when both are there
WellPriced(lo, hi) == (lo >= 0 \/ hi >= 0) /\ (lo >= 0 /\ hi >= 0 => lo <= hi)

\* the price part of the filter document the handler built
PricePredicate == [key \in {"$or"} \cap DOMAIN lst.query |-> lst.query[key]]

minP == lst.params.minPrice.n
maxP == lst.params.maxPrice.n
IsDigits(v) == v.t = "str" /\ v.k = "digits"

\* C12: with both bounds requested and minPrice <= maxPrice, the price predicate
\* selects a well-priced record exactly when its effective interval meets
\* [minPrice, maxPrice].
C12_PriceRangeIsIntersection ==
  ( /\ lst.pc # "idle"
    /\ IsDigits(lst.params.minPrice) /\ IsDigits(lst.params.maxPrice) /\ minP <= maxP )
  => /\ "$or" \in DOMAIN lst.query
     /\ \A lo, hi \in PriceBounds :
          WellPriced(lo, hi) =>
            ( Matches(PricePredicate, PricedDoc(lo, hi))
                <=> (EffLo(lo, hi) <= maxP /\ EffHi(lo, hi) >= minP) )

\* C12 witness: the range [1, 2]: a record that spans it and one below it are
\* told apart, and a record with the single bound 2 is selected.
C12_Witness ==
  /\ lst.pc = "await"
  /\ lst.params.minPrice = Digits(1) /\ lst.params.maxPrice = Digits(2)
  /\ Matches(PricePredicate, PricedDoc(0, 3))
  /\ Matches(PricePredicate, PricedDoc(-1, 2))
  /\ ~Matches(PricePredicate, PricedDoc(0, 0))
  /\ ~Matches(PricePredicate, PricedDoc(3, 3))

\* C13: with only minPrice the predicate selects a record exactly when its max
\* or its min is >= minPrice, with only maxPrice exactly when its min or its max
\* is <= maxPrice; for a well-priced record that is: its effective interval
\* reaches into the half-open range.
C13_OneSidedPrice ==
  /\ ( lst.pc # "idle" /\ IsDigits(lst.params.minPrice) /\ lst.params.maxPrice = Undefined )
     => /\ "$or" \in DOMAIN lst.query
        /\ \A lo, hi \in PriceBounds :
             /\ Matches(PricePredicate, PricedDoc(lo, hi))
                  <=> ((hi >= 0 /\ hi >= minP) \/ (lo >= 0 /\ lo >= minP))
             /\ WellPriced(lo, hi) =>
                  (Matches(PricePredicate, PricedDoc(lo, hi)) <=> EffHi(lo, hi) >= minP)
  /\ ( lst.pc # "idle" /\ IsDigits(lst.params.maxPrice) /\ lst.params.minPrice = Undefined )
     => /\ "$or" \in DOMAIN lst.query
        /\ \A lo, hi \in PriceBounds :
             /\ Matches(PricePredicate, PricedDoc(lo, hi))
                  <=> ((lo >= 0 /\ lo <= maxP) \/ (hi >= 0 /\ hi <= maxP))
             /\ WellPriced(lo, hi) =>
                  (Matches(PricePredicate, PricedDoc(lo, hi)) <=> EffLo(lo, hi) <= maxP)

\* C13 witness: only minPrice = 2: a record with the single lower bound 3 is
\* selected, records that end below 2 are not.
C13_Witness ==
  /\ lst.pc = "await"
  /\ lst.params.minPrice = Digits(2) /\ lst.params.maxPrice = Undefined
  /\ Matches(PricePredicate, PricedDoc(3, -1))
  /\ Matches(PricePredicate, PricedDoc(1, 2))
  /\ ~Matches(PricePredicate, PricedDoc(0, 1))
  /\ ~Matches(PricePredicate, PricedDoc(-1, -1))

\* C14: numeric minPrice above numeric maxPrice is answered 400 in the step the
\* request arrives, whatever the other parameters are, without a store call.
C14_MinAboveMaxIs400 ==
  ( /\ lst.pc # "idle"
    /\ IsDigits(lst.params.minPrice) /\ IsDigits(lst.params.maxPrice) /\ minP > maxP )
  => /\ lst.pc = "sent" /\ lst.status = 400
     /\ lst.find = "none" /\ lst.count = "none"

\* C14 witness: minPrice 12 above maxPrice 7 next to filters that are valid, a
\* minPower that is not a number and a parameter the handler does not know.
C14_Witness ==
  /\ lst.status = 400 /\ lst.find = "none" /\ lst.count = "none"
  /\ lst.params.minPrice = Digits(12) /\ lst.params.maxPrice = Digits(7)
  /\ lst.params.minPower = Str("abc") /\ lst.params.launchYear = Digits(2021)
  /\ lst.params.brand = Str(" tat ") /\ lst.params.extra = Str("1")

\* text that is not a number: neither digits nor empty nor white space
NonNumeric(v) == v.t = "str" /\ v.k \notin {"digits", "", " "}

\* a validation of the handler fails for these parameters
InvalidFilter(p) ==
  \/ NonNumeric(p.minPrice) \/ NonNumeric(p.maxPrice)
  \/ NonNumeric(p.minPower) \/ NonNumeric(p.launchYear)
  \/ (IsDigits(p.minPrice) /\ IsDigits(p.maxPrice) /\ p.minPrice.n > p.maxPrice.n)

\* the keys of the filter document that the parameters of a request call for
KeysCalledFor(p) ==
  {key \in {"$text", "brand", "bodyType", "fuelType", "transmission", "$or",
            "powerBHP", "launchYear", "discontinued", "tags"} :
     CASE key = "$text" -> p.q.t = "str" /\ p.q.k \notin {"", " "}
       [] key = "brand" -> p.brand.t = "str" /\ p.brand.k \notin {"", " "}
       [] key = "$or" -> IsDigits(p.minPrice) \/ IsDigits(p.maxPrice)
       [] key = "powerBHP" -> IsDigits(p.minPower)
       [] key = "launchYear" -> IsDigits(p.launchYear)
       [] key = "discontinued" -> p.discontinued # Undefined
       [] key = "tags" -> p.tags.t = "str" /\ p.tags.k \notin {"", " ", ","}
       [] OTHER -> p[key].t = "str" /\ p[key].k # ""}

StoreCalled == lst.find # "none" \/ lst.count # "none"

Paged == lst.pc # "idle" /\ lst.status # 400

\* C16: whatever page and limit are, the normalized page is at least 1 and the
\* normalized limit is within 1..50; an absent or non-numeric page gives 1, an
\* absent or non-numeric limit gives 12.
C16_PageAndLimitNormalized ==
  Paged =>
    /\ lst.numericPage >= 1
    /\ lst.numericLimit >= 1 /\ lst.numericLimit <= 50
    /\ ~IsDigits(lst.params.page) => lst.numericPage = 1
    /\ ~IsDigits(lst.params.limit) => lst.numericLimit = 12

\* C16 witness: limit 52 and page -2 were normalized to 50 and 1.
C16_Witness ==
  /\ lst.pc = "await"
  /\ lst.params.limit = Digits(52) /\ lst.params.page = Digits(0 - 2)
  /\ lst.numericLimit = 50 /\ lst.numericPage = 1

\* C17: for an integer limit L the normalized limit is L clamped to 1..50:
\* 50 above 50, 1 at and below 0, L itself otherwise.
C17_LimitIsClamped ==
  (Paged /\ IsDigits(lst.params.limit)) =>
    lst.numericLimit = (IF lst.params.limit.n > 50 THEN 50
                        ELSE IF lst.params.limit.n <= 0 THEN 1
                        ELSE lst.params.limit.n)

\* C18: the sort specification is the table entry of the token when the token is
\* one of the ten names, and the entry of newest for every other token.
C18_SortIsEntryOrNewest ==
  Paged =>
    lst.sortOption =
      (IF lst.params.sort.t = "str"
            /\ lst.params.sort.k \in {"newest", "oldest", "priceAsc", "priceDesc",
                                      "powerAsc", "powerDesc", "yearAsc", "yearDesc",
                                      "mileageAsc", "mileageDesc"}
         THEN SORT_FIELDS[lst.params.sort.k]
         ELSE SortBy("createdAt", -1))

\* records that differ from the first stored record in one field each
Without(doc, field) == [f \in DOMAIN doc \ {field} |-> doc[f]]
TestDocs ==
  {CarDoc(1), CarDoc(2),
   [CarDoc(1) EXCEPT !.brand = Str("BMW")],
   [CarDoc(1) EXCEPT !.model = Str("Altroz"), !.title = Str("Tata Altroz"), !.tags = <<>>],
   [CarDoc(1) EXCEPT !.bodyType = Str("Sedan")],
   [CarDoc(1) EXCEPT !.fuelType = Str("EV")],
   [CarDoc(1) EXCEPT !.transmission = Str("Automatic")],
   [CarDoc(1) EXCEPT !.powerBHP = Num(100)],
   Without(CarDoc(1), "powerBHP"),
   [CarDoc(1) EXCEPT !.launchYear = Num(2020)],
   [CarDoc(1) EXCEPT !.discontinued = Bool(TRUE)],
   [CarDoc(1) EXCEPT !.tags = <<"ev">>],
   PricedDoc(13, -1), PricedDoc(-1, -1), PricedDoc(7, 7)}

\* a parameter that is in the query string with a value
Present(v) == v.t = "str" /\ v.k # ""

\* the records the price range policy selects for the requested bounds
PricePolicy(doc, minPrice, maxPrice) ==
  LET rlo == DocPath(doc, "price.min")
      rhi == DocPath(doc, "price.max")
      lo == Number(minPrice).n
      hi == Number(maxPrice).n
      within(v) == v.t = "num" /\ lo <= v.n /\ v.n <= hi
  IN IF Present(minPrice) /\ Present(maxPrice)
       THEN \/ within(rlo) \/ within(rhi)
            \/ (rlo.t = "num" /\ rhi.t = "num" /\ rlo.n <= lo /\ rhi.n >= hi)
     ELSE IF Present(minPrice)
       THEN (rhi.t = "num" /\ rhi.n >= lo) \/ (rlo.t = "num" /\ rlo.n >= lo)
     ELSE IF Present(maxPrice)
       THEN (rlo.t = "num" /\ rlo.n <= hi) \/ (rhi.t = "num" /\ rhi.n <= hi)
     ELSE TRUE

\* the record satisfies the filter of every parameter that is present
SatisfiesAll(p, doc) ==
  /\ Present(p.q) /\ Trim(p.q).k # "" => Trim(p.q).k \in TextWords(doc)
  /\ Present(p.brand) /\ Trim(p.brand).k # "" =>
       RegexTest(ToUpperCase(Trim(p.brand)), doc.brand)
  /\ \A f \in {"bodyType", "fuelType", "transmission"} :
       Present(p[f]) => doc[f].k = Trim(p[f]).k
  /\ PricePolicy(doc, p.minPrice, p.maxPrice)
  /\ Present(p.minPower) =>
       "powerBHP" \in DOMAIN doc /\ doc.powerBHP.n >= Number(p.minPower).n
  /\ Present(p.launchYear) => doc.launchYear.n = Number(p.launchYear).n
  /\ p.discontinued # Undefined =>
       doc.discontinued = Bool(p.discontinued = Str("true"))
  /\ Present(p.tags) /\ Len(TagArr(p.tags)) > 0 =>
       \E i \in 1..Len(doc.tags) : \E j \in 1..Len(TagArr(p.tags)) :
         doc.tags[i] = TagArr(p.tags)[j]

\* C19: the filter document sent to the store selects a record exactly when the
\* record satisfies the filter of every parameter that is present; the records
\* and the total of a 200 answer are those records of the store; a parameter the
\* handler does not know changes neither the filter document nor the 400 answer.
C19_PredicateIsConjunction ==
  /\ StoreCalled =>
       /\ \A doc \in TestDocs : Matches(lst.query, doc) <=> SatisfiesAll(lst.params, doc)
       /\ lst.query = CompileFilters([lst.params EXCEPT !.extra = Undefined]).query
  /\ lst.pc # "idle" =>
       (lst.status = 400 <=> CompileFilters([lst.params EXCEPT !.extra = Undefined]).status = 400)
  /\ lst.status = 200 =>
       /\ lst.total = Cardinality({oid \in Stored : SatisfiesAll(lst.params, CarDoc(oid))})
       /\ \A i \in 1..Len(lst.data) : SatisfiesAll(lst.params, lst.data[i])

\* C19 witness: a 200 answer to six filters and an unknown parameter, with one
\* of the two stored records selected.
C19_Witness ==
  /\ lst.status = 200 /\ carCount = 2
  /\ lst.params.extra = Str("1")
  /\ lst.params.q = Str("punch") /\ lst.params.brand = Str(" tat ")
  /\ lst.params.bodyType = Str(" SUV ")
  /\ lst.params.minPrice = Digits(7) /\ lst.params.maxPrice = Digits(12)
  /\ lst.params.launchYear = Digits(2021) /\ lst.params.tags = Str("Budget, suv")
  /\ lst.params.minPower = Undefined /\ lst.params.discontinued = Undefined
  /\ lst.data = <<CarDoc(1)>> /\ lst.total = 1

\* the record holds the field of a comparison row; for the price row: a bound
HasField(doc, key) ==
  LET parts == KeyParts(key) IN
    IF Len(parts) = 2 THEN parts[1] \in DOMAIN doc /\ parts[2] \in DOMAIN doc[parts[1]]
    ELSE IF key = "price" THEN "min" \in DOMAIN doc.price \/ "max" \in DOMAIN doc.price
    ELSE key \in DOMAIN doc

\* C20: in every comparison row differs is true exactly when two of the values
\* have different string forms, which is when some value's string form is not
\* the first one's; and a row of a field that one record holds and another
\* lacks has differs true.
C20_DiffersIffStringsDiffer ==
  cmp.status = 200 =>
    \A j \in 1..Len(cmp.comparison) :
      LET row == cmp.comparison[j]
          n == Len(row.values)
      IN /\ row.differs <=> \E a, b \in 1..n :
                              String(row.values[a].value) # String(row.values[b].value)
         /\ row.differs <=> \E a \in 1..n :
                              String(row.values[a].value) # String(row.values[1].value)
         /\ (\E a, b \in 1..n : /\ HasField(cmp.cars[a], row.key)
                                /\ ~HasField(cmp.cars[b], row.key))
              => row.differs

\* the derived price of a record by the presence of its bounds
PriceByPresence(doc) ==
  LET hasMin == "min" \in DOMAIN doc.price
      hasMax == "max" \in DOMAIN doc.price
  IN IF hasMin /\ hasMax
       THEN IF doc.price.min = doc.price.max
              THEN Rupees(doc.price.min)
              ELSE RupeeRange(doc.price.min, doc.price.max)
     ELSE IF hasMin THEN Rupees(doc.price.min)
     ELSE IF hasMax THEN Rupees(doc.price.max)
     ELSE Null

\* C21: for bounds from 0 upwards the price value of a record in the comparison
\* is one formatted value for equal bounds, a range for two different bounds,
\* the one bound when only one is there, and the absent sentinel only when
\* neither is there.
C21_PriceByPresence ==
  cmp.status = 200 =>
    \A j \in 1..Len(cmp.comparison) :
      cmp.comparison[j].key = "price" =>
        \A i \in 1..Len(cmp.cars) :
          cmp.comparison[j].values[i].value = PriceByPresence(cmp.cars[i])

\* the brand part of the filter document the handler built
BrandPredicate == [key \in {"brand"} \cap DOMAIN lst.query |-> lst.query[key]]

\* C22: for a brand input that is not empty after trimming, the brand filter
\* selects a record exactly when the stored brand contains the input, letter
\* case ignored; and the store never refuses the request for its brand input.
C22_BrandIsSubstringMatch ==
  (Paged /\ Present(lst.params.brand) /\ Trim(lst.params.brand).k # "") =>
    /\ "brand" \in DOMAIN lst.query
    /\ \A doc \in TestDocs :
         Matches(BrandPredicate, doc)
           <=> ToUpperCase(Trim(lst.params.brand)).k \in Substrings(ToUpperCase(doc.brand).k)
    /\ lst.find # "rejected" /\ lst.count # "rejected"

\* C23: a validated id list whose ids all name stored records, in whatever
\* spelling the format check accepts, is answered 200 with one car and one value
\* per id, once the store has answered: never 404, never the 500 of the
\* ordering check.
C23_StoredIdsAnswer200 ==
  ( /\ cmp.pc = "sent" /\ cmp.find = "ok"
    /\ Validated(cmp.body)
    /\ \A i \in 1..Len(cmp.body.ids) : CastObjectId(cmp.body.ids[i]) \in Stored )
  => /\ cmp.status = 200
     /\ Len(cmp.cars) = Len(cmp.body.ids)
     /\ \A i \in 1..Len(cmp.cars) : cmp.cars[i] = CarDoc(CastObjectId(cmp.body.ids[i]))
     /\ cmp.comparison = buildComparison(cmp.cars)

\* C24: a 200 answer of the listing never holds more records than the total it
\* reports, nor more than the limit, whatever the seed task does to the store
\* while the find query and the count query are in flight.
C24_DataWithinTotal ==
  lst.status = 200 =>
    /\ Len(lst.data) <= lst.total
    /\ Len(lst.data) <= lst.numericLimit

\* a request passes ensureSeedData by its lines 20-24: seedAttempted is false,
\* the mode is dev and a seed promise is in flight
InFlightBranchTaken ==
  /\ ~seedAttempted /\ isDev /\ seedPromise # 0
  /\ \E r \in Reqs : req[r].pc = "new" /\ req'[r].pc # "new"

\* C25: a seed promise is in flight only while seedAttempted is true,
\* seedAttempted never goes back from true to false, and no request passes
\* ensureSeedData by the branch for an in-flight promise with seedAttempted false.
C25_PromiseOnlyWhileAttempted ==
  /\ [](seedPromise # 0 => seedAttempted)
  /\ [][(seedAttempted => seedAttempted') /\ ~InFlightBranchTaken]_vars

\* C25 witness: a request arrived while the seed promise was in flight, the task
\* has since inserted the dataset and cleared the promise, and the flag is still set.
C25_Witness ==
  /\ \E r \in Reqs : req[r].saw = "seeding" /\ nextCalls[r] = 1
  /\ \E t \in Reqs : task[t].outcome = "inserted"
  /\ seedPromise = 0 /\ seedAttempted

====
